---- MODULE Spec2Model ----
(***************************************************************************)
(* Model of the Vertex AI Answers proxy (src/app.py, src/model.py).        *)
(*                                                                         *)
(*   SpecParse   parse_gcs_uri applied to bounded strings                  *)
(*   SpecEnrich  get_metadata (lru_cache) and enrich_answer_with_metadata  *)
(*               over a changing object store                              *)
(*   Spec        the POST /answer/{engine_id} endpoint                     *)
(*                                                                         *)
(* Strings that the code inspects character by character (storage URIs)   *)
(* are sequences of one-character strings.                                 *)
(***************************************************************************)
EXTENDS Integers, Sequences, FiniteSets, TLC

VARIABLES
    puri, presult,                      \* parse_gcs_uri: argument, outcome
    store, cache, backendCalls,         \* object store, lru_cache, get_blob calls
    firstResult, lastResult, relooked,  \* history of get_metadata per URI
    enrIn, enrOut, enrAgain,            \* enrichment: message, result, re-run
    hdr, body, pc, response, calls, upstream, archive   \* endpoint

parseVars == <<puri, presult>>
enrichVars == <<store, cache, backendCalls, firstResult, lastResult, relooked,
                enrIn, enrOut, enrAgain>>
httpVars == <<hdr, body, pc, response, calls, upstream, archive>>
vars == <<parseVars, enrichVars, httpVars>>

(***************************************************************************)
(* Bounds                                                                  *)
(***************************************************************************)
MaxTail == 4
MaxRefs == 2
MaxRequests == 2

None == "None"

(***************************************************************************)
(* parse_gcs_uri                                                           *)
(***************************************************************************)
\* Index of the first occurrence of c in s, 0 when there is none.
FirstIdx(s, c) ==
    IF \E i \in 1..Len(s) : s[i] = c
    THEN CHOOSE i \in 1..Len(s) : s[i] = c /\ \A j \in 1..(i - 1) : s[j] # c
    ELSE 0

GsPrefix == <<"g", "s", ":", "/", "/">>

ValueError == [done |-> TRUE, ok |-> FALSE, bucket |-> <<>>, name |-> <<>>]

\* Mutant: the scheme is not checked, any five leading characters pass.
parse_gcs_uri_any_scheme(uri) ==
    LET n == Len(uri)
        rest == SubSeq(uri, 6, n)
        k == FirstIdx(rest, "/")
        tail == SubSeq(rest, k + 1, Len(rest))
        nl == FirstIdx(tail, "\n")
    IN  IF n >= 5 /\ k > 1 /\ (nl = 0 \/ nl = Len(tail))
        THEN [done |-> TRUE, ok |-> TRUE, bucket |-> SubSeq(rest, 1, k - 1),
              name |-> IF nl = 0 THEN tail ELSE SubSeq(tail, 1, nl - 1)]
        ELSE ValueError

\* re.match(r"^gs://(?P<bucket>[^/]+)/(?P<name>.*)$", uri): "gs://", then a
\* non-empty run without "/", then "/", then ".*" (any characters but a line
\* break) up to "$" (the end, or a line break that ends the string).
parse_gcs_uri(uri) ==
    LET n == Len(uri)
        rest == SubSeq(uri, 6, n)
        k == FirstIdx(rest, "/")
        tail == SubSeq(rest, k + 1, Len(rest))
        nl == FirstIdx(tail, "\n")
    IN  IF /\ n >= 5
           /\ SubSeq(uri, 1, 5) = GsPrefix
           /\ k > 1
           /\ (nl = 0 \/ nl = Len(tail))
        THEN [done |-> TRUE, ok |-> TRUE, bucket |-> SubSeq(rest, 1, k - 1),
              name |-> IF nl = 0 THEN tail ELSE SubSeq(tail, 1, nl - 1)]
        ELSE ValueError

(***************************************************************************)
(* get_metadata: the object store, and the lru_cache in front of it        *)
(***************************************************************************)
UriA == GsPrefix \o <<"b", "/", "o">>
UriB == GsPrefix \o <<"b", "/", "p">>
UriBad == <<"n", "o", "t">>
URIs == {UriA, UriB, UriBad}

ObjA == <<(<<"b">>), (<<"o">>)>>
ObjB == <<(<<"b">>), (<<"p">>)>>
Objects == {ObjA, ObjB}

\* What bucket.get_blob(name) and blob.metadata meet for an object: no such
\* object (get_blob returns None), a storage error (GoogleCloudError), an
\* object without custom metadata (blob.metadata is None), or a metadata dict.
BlobStates == {"missing", "error", "nometa", "m1"}

EmptyDict == [x \in {} |-> None]

\* bucket.get_blob(name) for a parsed locator
GetBlob(p, st) ==
    IF <<p.bucket, p.name>> \in DOMAIN st THEN st[<<p.bucket, p.name>>] ELSE "missing"

\* What the statements of the try block (lines 158-161) come to: the exception
\* that leaves them, or the value returned.
TryBlock(ok, blob) ==
    IF ~ok
    THEN [raised |-> "ValueError", value |-> None, backend |-> FALSE]
    ELSE IF blob = "missing"
    THEN [raised |-> "AttributeError", value |-> None, backend |-> TRUE]
    ELSE IF blob = "error"
    THEN [raised |-> "GoogleCloudError", value |-> None, backend |-> TRUE]
    ELSE [raised |-> "no", backend |-> TRUE,
          value |-> IF blob = "nometa" THEN None ELSE blob]

\* Mutant: the except clause is gone, a failure leaves get_metadata as an
\* exception.
ExceptClause_reraise(t) == t

\* except Exception (lines 162-164): the exception is logged and None returned.
ExceptClause(t) == [raised |-> "no", value |-> t.value, backend |-> t.backend]

ParsedBlob(p, st) == TryBlock(p.ok, GetBlob(p, st))

\* The body of get_metadata (lines 157-164).
get_metadata_body(uri, st) == ExceptClause(ParsedBlob(parse_gcs_uri(uri), st))

CacheMiss(uri, c, r) ==
    [raised |-> r.raised, value |-> r.value, backend |-> r.backend,
     cache |-> IF r.raised = "no" THEN (uri :> r.value) @@ c ELSE c]

\* Mutant: no memoization, every call runs the body.
get_metadata_uncached(uri, c, st) ==
    [CacheMiss(uri, c, get_metadata_body(uri, st)) EXCEPT !.cache = c]

\* @lru_cache(maxsize=None) around the body: a hit returns the stored value
\* without running the body; a miss runs it and stores what it RETURNS (a
\* call that raises stores nothing).
get_metadata(uri, c, st) ==
    IF uri \in DOMAIN c
    THEN [raised |-> "no", value |-> c[uri], backend |-> FALSE, cache |-> c]
    ELSE CacheMiss(uri, c, get_metadata_body(uri, st))

(***************************************************************************)
(* enrich_answer_with_metadata                                             *)
(***************************************************************************)
\* A Reference of the AnswerQueryResponse message.  proto3: an unset string is
\* the empty string, an unset sub-message is absent.
RefMsgs ==
    {[hasChunkInfo |-> FALSE, hasDocumentMetadata |-> FALSE, uri |-> <<>>],
     [hasChunkInfo |-> TRUE, hasDocumentMetadata |-> FALSE, uri |-> <<>>],
     [hasChunkInfo |-> TRUE, hasDocumentMetadata |-> TRUE, uri |-> <<>>]}
    \cup {[hasChunkInfo |-> TRUE, hasDocumentMetadata |-> TRUE, uri |-> u] : u \in URIs}

Messages ==
    {[hasAnswer |-> FALSE, references |-> <<>>]} \cup
    {[hasAnswer |-> TRUE, references |-> rs] :
        rs \in UNION {[1..k -> RefMsgs] : k \in 0..MaxRefs}}

IsMessage(x) == "hasAnswer" \in DOMAIN x

\* MessageToDict(Message.pb(answer)): fields with default values (empty
\* string, empty list, unset message) are left out of the dictionary.
DocumentMetadataDict(r) ==
    ("title" :> "t") @@ (IF r.uri # <<>> THEN ("uri" :> r.uri) ELSE EmptyDict)

ChunkInfoDict(r) ==
    ("content" :> "c") @@
    (IF r.hasDocumentMetadata
     THEN ("documentMetadata" :> DocumentMetadataDict(r)) ELSE EmptyDict)

ReferenceDict(r) ==
    IF r.hasChunkInfo THEN ("chunkInfo" :> ChunkInfoDict(r)) ELSE EmptyDict

MessageToDict(msg) ==
    IF ~msg.hasAnswer THEN EmptyDict
    ELSE ("answer" :>
            (("answerText" :> "a") @@
             (IF msg.references # <<>>
              THEN ("references" :>
                      [i \in 1..Len(msg.references) |-> ReferenceDict(msg.references[i])])
              ELSE EmptyDict)))

\* reference["chunkInfo"]["documentMetadata"]["uri"] raises KeyError
HasUri(ref) ==
    /\ "chunkInfo" \in DOMAIN ref
    /\ "documentMetadata" \in DOMAIN ref["chunkInfo"]
    /\ "uri" \in DOMAIN ref["chunkInfo"]["documentMetadata"]

\* Mutant: metadata is accumulated under the key instead of assigned to it.
AttachMetadata_append(ref, value) ==
    [ref EXCEPT !["chunkInfo"] =
        ("objectMetadata" :> (IF "objectMetadata" \in DOMAIN @ THEN "m+m" ELSE value)) @@ @]

\* reference["chunkInfo"]["objectMetadata"] = value (line 191)
AttachMetadata(ref, value) ==
    [ref EXCEPT !["chunkInfo"] = ("objectMetadata" :> value) @@ @]

Lookup(uri, m) == [uri |-> uri, value |-> m.value, backend |-> m.backend]

PrependLookup(look, rest) == [rest EXCEPT !.lookups = <<look>> \o @]

\* The for loop of lines 189-191 from reference i on.  The try of line 188
\* encloses the whole loop: the first KeyError ends it, leaving the
\* references from i on as they are; any other exception leaves the function.
RECURSIVE EnrichReferences(_, _, _, _)
RECURSIVE EnrichReference(_, _, _, _, _)
EnrichReference(refs, i, uri, m, st) ==
    IF m.raised # "no"
    THEN [raised |-> m.raised, refs |-> refs, cache |-> m.cache,
          lookups |-> <<Lookup(uri, m)>>]
    ELSE PrependLookup(Lookup(uri, m),
            EnrichReferences([refs EXCEPT ![i] = AttachMetadata(refs[i], m.value)],
                             i + 1, m.cache, st))

EnrichReferences(refs, i, c, st) ==
    IF i > Len(refs) \/ ~HasUri(refs[i])
    THEN [raised |-> "no", refs |-> refs, cache |-> c, lookups |-> <<>>]
    ELSE EnrichReference(refs, i, refs[i]["chunkInfo"]["documentMetadata"]["uri"],
            get_metadata(refs[i]["chunkInfo"]["documentMetadata"]["uri"], c, st), st)

PutReferences(d, r) ==
    [raised |-> r.raised, cache |-> r.cache, lookups |-> r.lookups,
     dict |-> [d EXCEPT !["answer"]["references"] = r.refs]]

\* Lines 188-194 on the dictionary: answer_dict["answer"]["references"] raises
\* KeyError when either key is missing, which the except clause logs.
EnrichDict(d, c, st) ==
    IF "answer" \notin DOMAIN d \/ "references" \notin DOMAIN d["answer"]
    THEN [raised |-> "no", dict |-> d, cache |-> c, lookups |-> <<>>]
    ELSE PutReferences(d, EnrichReferences(d["answer"]["references"], 1, c, st))

\* enrich_answer_with_metadata(answer): Message.pb(answer) accepts a proto
\* message only and raises TypeError for anything else, a dictionary included.
enrich_answer_with_metadata(answer, c, st) ==
    IF ~IsMessage(answer)
    THEN [raised |-> "TypeError", dict |-> EmptyDict, cache |-> c, lookups |-> <<>>]
    ELSE EnrichDict(MessageToDict(answer), c, st)

(***************************************************************************)
(* The request body and its pydantic model (src/model.py)                  *)
(***************************************************************************)
Absent == "absent"

\* The "session" member of the JSON body: left out (or null), or an object
\* whose members may be left out.
SessionJson ==
    {[present |-> FALSE, name |-> Absent, userPseudoId |-> Absent]} \cup
    [present : {TRUE}, name : {Absent, "s1"}, userPseudoId : {Absent, "u1"}]

\* JSON bodies that validate as a Request: "query" alone beside the session,
\* or with the optional members set as well.  maxReturnResults stands for the
\* members the model does not declare (includeCitations, maxRephraseSteps,
\* disableQueryRephraser, ...).
Bodies ==
    {b \in [query : {"hello"}, session : SessionJson, languageCode : {Absent, "en"},
            maxReturnResults : {Absent, "3"}] :
        (b.languageCode = Absent) <=> (b.maxReturnResults = Absent)}

NoBody ==
    [query |-> "", session |-> [present |-> FALSE, name |-> Absent, userPseudoId |-> Absent],
     languageCode |-> Absent, maxReturnResults |-> Absent]

\* class Session: every field Optional with default None.
SessionModel(j) ==
    [isNone |-> ~j.present,
     name |-> IF j.present /\ j.name # Absent THEN j.name ELSE None,
     user_pseudo_id |-> IF j.present /\ j.userPseudoId # Absent THEN j.userPseudoId ELSE None]

\* class Request: the fields it declares, with their defaults; members of the
\* body that it does not declare are ignored (pydantic's default).
RequestModel(b) ==
    [preamble |-> None,
     query |-> b.query,
     session |-> SessionModel(b.session),
     language_code |-> IF b.languageCode = Absent THEN "es" ELSE b.languageCode,
     ignore_adversarial_query |-> TRUE,
     ignore_non_summary_seeking_query |-> TRUE]

(***************************************************************************)
(* POST /answer/{engine_id}                                                *)
(***************************************************************************)
API_KEYS == {"k"}
Headers == {"none", "k", "bad"}
HTTP_401_UNAUTHORIZED == 401

\* APIKeyHeader(name="X-API-Key") with auto_error left on: a request without
\* the header is refused by the security scheme itself, before get_api_key is
\* called.  The status it sends is the library's: 403 in the FastAPI releases
\* of the time, 401 in later ones.
MissingKeyStatus == {401, 403}

\* The attributes of `request` that the handler reads, in the order of lines
\* 227-254.
AccessOrder ==
    <<"disable_query_rephraser", "max_rephrase_steps", "ignore_adversarial_query",
      "ignore_non_answer_seeking_query", "ignore_low_relevant_content",
      "model_version", "preamble", "include_citations", "language_code",
      "max_return_results", "query">>

NoUpstream ==
    [built |-> FALSE, session |-> None, query |-> "", disable |-> FALSE,
     max_rephrase_steps |-> 0, ignore_adversarial_query |-> FALSE,
     ignore_non_answer_seeking_query |-> FALSE, ignore_low_relevant_content |-> FALSE,
     include_citations |-> FALSE, answer_language_code |-> "", max_return_results |-> 0]

\* Lines 223-259: reading an attribute the model does not declare raises
\* AttributeError; otherwise the AnswerQueryRequest is built from the values.
BuildAnswerQueryRequest(req, session_name) ==
    IF \E i \in 1..Len(AccessOrder) : AccessOrder[i] \notin DOMAIN req
    THEN [raised |-> "AttributeError", request |-> NoUpstream]
    ELSE [raised |-> "no",
          request |->
            [built |-> TRUE, session |-> session_name, query |-> req.query,
             disable |-> req.disable_query_rephraser,
             max_rephrase_steps |-> req.max_rephrase_steps,
             ignore_adversarial_query |-> req.ignore_adversarial_query,
             ignore_non_answer_seeking_query |-> req.ignore_non_answer_seeking_query,
             ignore_low_relevant_content |-> req.ignore_low_relevant_content,
             include_citations |-> req.include_citations,
             answer_language_code |-> req.language_code,
             max_return_results |-> req.max_return_results]]

\* What the two remote calls of one request do: create_session returns a new
\* session name or raises, answer_query returns a message or raises.
Environments ==
    [createOk : BOOLEAN, newName : {"sNew"}, answerOk : BOOLEAN,
     message : {[hasAnswer |-> TRUE,
                 references |-> <<[hasChunkInfo |-> TRUE, hasDocumentMetadata |-> TRUE,
                                   uri |-> UriA]>>]}]

Call(op, arg, ok) == [op |-> op, arg |-> arg, ok |-> ok]

\* Mutant: a failed create_session is tried once more.
ResolveSession_retry(req, env) ==
    IF req.session.isNone
    THEN [raised |-> "AttributeError", name |-> None, calls |-> <<>>]
    ELSE IF req.session.name = None
    THEN IF env.createOk
         THEN [raised |-> "no", name |-> env.newName,
               calls |-> <<Call("create_session", req.session.user_pseudo_id, TRUE)>>]
         ELSE [raised |-> "no", name |-> env.newName,
               calls |-> <<Call("create_session", req.session.user_pseudo_id, FALSE),
                           Call("create_session", req.session.user_pseudo_id, TRUE)>>]
    ELSE [raised |-> "no", name |-> req.session.name, calls |-> <<>>]

\* Lines 218-221 with create_session (lines 66-87): request.session.name
\* raises AttributeError when session is None; without a name one
\* create_session call is made, whose exception is not caught.
ResolveSession(req, env) ==
    IF req.session.isNone
    THEN [raised |-> "AttributeError", name |-> None, calls |-> <<>>]
    ELSE IF req.session.name = None
    THEN [raised |-> IF env.createOk THEN "no" ELSE "GoogleAPICallError",
          name |-> IF env.createOk THEN env.newName ELSE None,
          calls |-> <<Call("create_session", req.session.user_pseudo_id, env.createOk)>>]
    ELSE [raised |-> "no", name |-> req.session.name, calls |-> <<>>]

NoTask == [launched |-> FALSE, session |-> None, state |-> "none"]

HandlerResult(status, cs, up, task, content, c, looks) ==
    [status |-> status, calls |-> cs, upstream |-> up, archive |-> task,
     content |-> content, cache |-> c, lookups |-> looks]

\* Lines 263-269: the archive task is created, the answer enriched and
\* returned.
AfterAnswerQuery(cs, up, task, e) ==
    IF e.raised # "no"
    THEN HandlerResult(500, cs, up, task, EmptyDict, e.cache, e.lookups)
    ELSE HandlerResult(200, cs, up, task, e.dict, e.cache, e.lookups)

\* Lines 223-269, with the session name resolved.
AfterSession(req, env, c, st, s, b) ==
    IF b.raised # "no"
    THEN HandlerResult(500, s.calls, NoUpstream, NoTask, EmptyDict, c, <<>>)
    ELSE IF ~env.answerOk
    THEN HandlerResult(500, s.calls \o <<Call("answer_query", s.name, FALSE)>>,
                       b.request, NoTask, EmptyDict, c, <<>>)
    ELSE AfterAnswerQuery(s.calls \o <<Call("answer_query", s.name, TRUE)>>, b.request,
                          [launched |-> TRUE, session |-> s.name, state |-> "pending"],
                          enrich_answer_with_metadata(env.message, c, st))

AfterResolve(req, env, c, st, s) ==
    IF s.raised # "no"
    THEN HandlerResult(500, s.calls, NoUpstream, NoTask, EmptyDict, c, <<>>)
    ELSE AfterSession(req, env, c, st, s, BuildAnswerQueryRequest(req, s.name))

\* The body of answer() (lines 218-269).  It holds no await, so it runs
\* from its first line to its return, or to the exception that leaves it,
\* without another coroutine in between; an exception that leaves it is
\* answered with status 500.
answer(req, env, c, st) == AfterResolve(req, env, c, st, ResolveSession(req, env))

(***************************************************************************)
(* History of the lookups, kept for the properties only                    *)
(***************************************************************************)
RecordLookup(h, u, l) ==
    [first |-> IF h.first[u] = "never" THEN [h.first EXCEPT ![u] = l.value] ELSE h.first,
     last |-> [h.last EXCEPT ![u] = l.value],
     again |-> IF h.first[u] = "never" THEN h.again ELSE [h.again EXCEPT ![u] = TRUE],
     backend |-> IF l.backend /\ h.backend[u] < 2
                 THEN [h.backend EXCEPT ![u] = @ + 1] ELSE h.backend]

RECURSIVE RecordLookups(_, _)
RecordLookups(h, ls) ==
    IF ls = <<>> THEN h
    ELSE RecordLookups(RecordLookup(h, Head(ls).uri, Head(ls)), Tail(ls))

History ==
    [first |-> firstResult, last |-> lastResult, again |-> relooked,
     backend |-> backendCalls]

SetHistory(h) ==
    /\ firstResult' = h.first
    /\ lastResult' = h.last
    /\ relooked' = h.again
    /\ backendCalls' = h.backend

(***************************************************************************)
(* Initial states                                                          *)
(***************************************************************************)
Reqs == 1..MaxRequests

NoResponse == [status |-> 0, content |-> EmptyDict]

NoResult == [done |-> FALSE, ok |-> FALSE, bucket |-> <<>>, name |-> <<>>]

BaseParse ==
    /\ puri = <<>>
    /\ presult = NoResult

\* The process starts with an empty cache.
BaseEnrich ==
    /\ cache = EmptyDict
    /\ backendCalls = [u \in URIs |-> 0]
    /\ firstResult = [u \in URIs |-> "never"]
    /\ lastResult = [u \in URIs |-> "never"]
    /\ relooked = [u \in URIs |-> FALSE]
    /\ enrIn = [hasAnswer |-> FALSE, references |-> <<>>]
    /\ enrOut = [raised |-> "unrun", dict |-> EmptyDict]
    /\ enrAgain = [raised |-> "unrun", dict |-> EmptyDict, loop |-> EmptyDict,
                   rerun |-> EmptyDict]

BaseHttp ==
    /\ hdr = [r \in Reqs |-> "none"]
    /\ body = [r \in Reqs |-> NoBody]
    /\ pc = [r \in Reqs |-> "new"]
    /\ response = [r \in Reqs |-> NoResponse]
    /\ calls = [r \in Reqs |-> <<>>]
    /\ upstream = [r \in Reqs |-> NoUpstream]
    /\ archive = [r \in Reqs |-> NoTask]

(***************************************************************************)
(* SpecParse: parse_gcs_uri on the strings prefix \o tail                  *)
(***************************************************************************)
Prefixes ==
    {<<>>, GsPrefix, <<"s", "3", ":", "/", "/">>, <<"g", "s", ":", "/">>,
     <<"G", "S", ":", "/", "/">>}
TailChars == {"b", "o", "/", "\n"}
Tails == UNION {[1..k -> TailChars] : k \in 0..MaxTail}

InitParse ==
    /\ \E pre \in Prefixes, t \in Tails : puri = pre \o t
    /\ presult = NoResult
    /\ BaseEnrich
    /\ BaseHttp
    /\ store = [o \in Objects |-> "m1"]

ParseUri ==
    /\ ~presult.done
    /\ presult' = [parse_gcs_uri(puri) EXCEPT !.done = TRUE]
    /\ UNCHANGED <<puri, enrichVars, httpVars>>

NextParse == ParseUri

SpecParse == InitParse /\ [][NextParse]_vars

(***************************************************************************)
(* SpecEnrich: enrichments of drawn messages while the store changes       *)
(***************************************************************************)
\* One call of enrich_answer_with_metadata.  enrAgain records what further
\* applications give in the state the call leaves: the function applied to
\* its own result, the loop of lines 188-193 applied to its result, and the
\* function applied to the same message once more.
Again(a, l, m) ==
    [raised |-> a.raised, dict |-> a.dict, loop |-> l.dict, rerun |-> m.dict]

EnrichDone(msg, r) ==
    /\ enrIn' = msg
    /\ enrOut' = [raised |-> r.raised, dict |-> r.dict]
    /\ enrAgain' = Again(enrich_answer_with_metadata(r.dict, r.cache, store),
                         EnrichDict(r.dict, r.cache, store),
                         enrich_answer_with_metadata(msg, r.cache, store))
    /\ cache' = r.cache
    /\ SetHistory(RecordLookups(History, r.lookups))

Enrich ==
    /\ enrOut.raised = "unrun"
    /\ \E msg \in Messages :
          EnrichDone(msg, enrich_answer_with_metadata(msg, cache, store))
    /\ UNCHANGED <<store, parseVars, httpVars>>

\* The caller takes the dictionary; the call is over.
Return ==
    /\ enrOut.raised # "unrun"
    /\ enrIn' = [hasAnswer |-> FALSE, references |-> <<>>]
    /\ enrOut' = [raised |-> "unrun", dict |-> EmptyDict]
    /\ enrAgain' = [raised |-> "unrun", dict |-> EmptyDict, loop |-> EmptyDict,
                    rerun |-> EmptyDict]
    /\ UNCHANGED <<store, cache, backendCalls, firstResult, lastResult, relooked,
                   parseVars, httpVars>>

\* The bucket is written by others: objects appear, vanish, gain metadata,
\* and the service fails and recovers.  The call is synchronous, so a change
\* falls before a call or after it.
StoreChange ==
    /\ enrOut.raised = "unrun"
    /\ \E o \in Objects, b \in BlobStates :
          /\ store[o] # b
          /\ store' = [store EXCEPT ![o] = b]
    /\ UNCHANGED <<cache, backendCalls, firstResult, lastResult, relooked,
                   enrIn, enrOut, enrAgain, parseVars, httpVars>>

NextEnrich == Enrich \/ Return \/ StoreChange

InitEnrich ==
    /\ BaseParse
    /\ BaseEnrich
    /\ BaseHttp
    /\ store \in [Objects -> BlobStates]

SpecEnrich == InitEnrich /\ [][NextEnrich]_vars

(***************************************************************************)
(* Spec: the endpoint                                                      *)
(***************************************************************************)
\* A POST /answer/e1 arrives with its header and its body.
Receive(r) ==
    /\ pc[r] = "new"
    /\ \E h \in Headers, b \in Bodies :
          /\ hdr' = [hdr EXCEPT ![r] = h]
          /\ body' = [body EXCEPT ![r] = b]
    /\ pc' = [pc EXCEPT ![r] = "security"]
    /\ UNCHANGED <<response, calls, upstream, archive, enrichVars, parseVars>>

\* Security(api_key_header): the APIKeyHeader scheme reads X-API-Key.
ApiKeyHeader(r) ==
    /\ pc[r] = "security"
    /\ IF hdr[r] = "none"
       THEN \E s \in MissingKeyStatus :
               /\ response' = [response EXCEPT ![r] = [status |-> s, content |-> EmptyDict]]
               /\ pc' = [pc EXCEPT ![r] = "done"]
       ELSE /\ pc' = [pc EXCEPT ![r] = "get_api_key"]
            /\ UNCHANGED response
    /\ UNCHANGED <<hdr, body, calls, upstream, archive, enrichVars, parseVars>>

\* get_api_key (lines 123-128)
get_api_key(r) ==
    /\ pc[r] = "get_api_key"
    /\ IF hdr[r] \in API_KEYS
       THEN /\ pc' = [pc EXCEPT ![r] = "handler"]
            /\ UNCHANGED response
       ELSE /\ response' = [response EXCEPT
                               ![r] = [status |-> HTTP_401_UNAUTHORIZED,
                                       content |-> EmptyDict]]
            /\ pc' = [pc EXCEPT ![r] = "done"]
    /\ UNCHANGED <<hdr, body, calls, upstream, archive, enrichVars, parseVars>>

\* The handler runs for an authenticated request.
AnswerDone(r, res) ==
    /\ response' = [response EXCEPT ![r] = [status |-> res.status, content |-> res.content]]
    /\ calls' = [calls EXCEPT ![r] = res.calls]
    /\ upstream' = [upstream EXCEPT ![r] = res.upstream]
    /\ archive' = [archive EXCEPT ![r] = res.archive]
    /\ cache' = res.cache
    /\ SetHistory(RecordLookups(History, res.lookups))

Answer(r) ==
    /\ pc[r] = "handler"
    /\ \E env \in Environments :
          AnswerDone(r, answer(RequestModel(body[r]), env, cache, store))
    /\ pc' = [pc EXCEPT ![r] = "done"]
    /\ UNCHANGED <<hdr, body, store, enrIn, enrOut, enrAgain, parseVars>>

Next == \E r \in Reqs : Receive(r) \/ ApiKeyHeader(r) \/ get_api_key(r) \/ Answer(r)

Init ==
    /\ BaseParse
    /\ BaseEnrich
    /\ BaseHttp
    /\ store = [o \in Objects |-> "m1"]

Spec == Init /\ [][Next]_vars

\* The task of asyncio.create_task(write_to_gcs(answer, session_name)), run
\* by the event loop after the handler has returned: MessageToJson (outside
\* the try) may raise, which ends the task with an exception nobody reads;
\* the upload may raise, which is logged.  Nothing of the request is touched.
write_to_gcs(r) ==
    /\ archive[r].state = "pending"
    /\ \E outcome \in {"written", "upload_failed", "serialization_raised"} :
          archive' = [archive EXCEPT ![r].state = outcome]
    /\ UNCHANGED <<hdr, body, pc, response, calls, upstream, enrichVars, parseVars>>

NextTasks == Next \/ \E r \in Reqs : write_to_gcs(r)

SpecTasks == Init /\ [][NextTasks]_vars

(***************************************************************************)
(* Properties of parse_gcs_uri (SpecParse)                                 *)
(***************************************************************************)
NoLineBreak(t) == \A i \in 1..Len(t) : t[i] # "\n"

\* s is <scheme>://<bucket>/<path>: the separator "://" begins at i, after a
\* non-empty scheme, and the first "/" after it is at k, after a non-empty bucket.
UriShape(s, i, k) ==
    /\ i > 1 /\ i + 3 < k /\ k <= Len(s)
    /\ SubSeq(s, i, i + 2) = <<":", "/", "/">>
    /\ \A j \in 1..(i - 1) : s[j] \notin {":", "/"}
    /\ s[k] = "/"
    /\ \A j \in (i + 3)..(k - 1) : s[j] # "/"

GsShape(s, k) == UriShape(s, 3, k) /\ SubSeq(s, 1, 2) = <<"g", "s">>

\* C7 as stated: every scheme://bucket/path string, for any scheme, parses to
\* (bucket, path), and every string without that shape fails.
C7_AnySchemeParses ==
    presult.done =>
        /\ \A i, k \in 1..Len(puri) :
              UriShape(puri, i, k) =>
                  /\ presult.ok
                  /\ presult.bucket = SubSeq(puri, i + 3, k - 1)
                  /\ presult.name = SubSeq(puri, k + 1, Len(puri))
        /\ (~ \E i, k \in 1..Len(puri) : UriShape(puri, i, k)) => ~presult.ok

\* C7 amended: every gs://bucket/path string whose path holds no line break
\* parses to (bucket, path), the path keeping its further "/"; every string
\* that is not gs://<non-empty bucket>/<path> fails with ValueError.
C7_GsSchemeParses ==
    presult.done =>
        /\ \A k \in 1..Len(puri) :
              (GsShape(puri, k) /\ NoLineBreak(SubSeq(puri, k + 1, Len(puri)))) =>
                  /\ presult.ok
                  /\ presult.bucket = SubSeq(puri, 6, k - 1)
                  /\ presult.name = SubSeq(puri, k + 1, Len(puri))
        /\ (~ \E k \in 1..Len(puri) : GsShape(puri, k)) => ~presult.ok

\* A gs:// string has been parsed into a bucket and a path with a further "/".
C7_Witness ==
    /\ presult.done /\ presult.ok
    /\ \E i \in 1..Len(presult.name) : presult.name[i] = "/"
    /\ Len(presult.bucket) > 1

(***************************************************************************)
(* Properties of get_metadata and the enrichment (SpecEnrich)              *)
(***************************************************************************)
Enriched == enrOut.raised # "unrun"

OutReferences ==
    IF "answer" \in DOMAIN enrOut.dict /\ "references" \in DOMAIN enrOut.dict["answer"]
    THEN enrOut.dict["answer"]["references"] ELSE <<>>

Attached(ref) ==
    /\ "chunkInfo" \in DOMAIN ref
    /\ "objectMetadata" \in DOMAIN ref["chunkInfo"]

C8_EnrichTwiceSame ==
    enrOut.raised = "no" => (enrAgain.raised = "no" /\ enrAgain.dict = enrOut.dict)

\* C8 amended: with the store unchanged, the enrichment loop (lines 188-193)
\* run over the already-enriched dictionary leaves it as it is, and enriching
\* the same message once more yields the same dictionary.
C8_LoopIdempotent ==
    enrOut.raised = "no" =>
        (enrAgain.loop = enrOut.dict /\ enrAgain.rerun = enrOut.dict)

\* An enrichment has attached metadata to a reference.
C8_Witness ==
    /\ enrOut.raised = "no"
    /\ Len(OutReferences) >= 1
    /\ Attached(OutReferences[1])
    /\ OutReferences[1]["chunkInfo"]["objectMetadata"] = "m1"

\* What C9 says reference r becomes: with a URI, the same reference plus the
\* lookup result of its own URI; without one, the same reference.
C9_Expected(r) ==
    IF r.uri # <<>>
    THEN ("chunkInfo" :> (("objectMetadata" :> lastResult[r.uri]) @@ ChunkInfoDict(r)))
    ELSE ReferenceDict(r)

\* C9 as stated: every reference with a URI receives the lookup result of its
\* own URI whatever the other references of the list look like, a reference
\* without a URI and every other field stay as they are, and an answer with
\* no references is returned unchanged.
C9_EveryUriReferenceEnriched ==
    Enriched =>
        /\ enrOut.raised = "no"
        /\ Len(OutReferences) = Len(enrIn.references)
        /\ \A j \in 1..Len(enrIn.references) :
              /\ enrIn.references[j].uri # <<>> => Attached(OutReferences[j])
              /\ Attached(OutReferences[j]) =>
                    OutReferences[j] = C9_Expected(enrIn.references[j])
              /\ ~Attached(OutReferences[j]) =>
                    OutReferences[j] = ReferenceDict(enrIn.references[j])

Finished(r) == pc[r] = "done"

Authenticated(r) == hdr[r] \in API_KEYS

NameSupplied(r) == body[r].session.present /\ body[r].session.name # Absent

CallsOf(r, op) == {i \in 1..Len(calls[r]) : calls[r][i].op = op}

NoFailedCall(r) == \A i \in 1..Len(calls[r]) : calls[r][i].ok

NoDownstream(r) ==
    /\ calls[r] = <<>>
    /\ ~archive[r].launched
    /\ \A u \in URIs : backendCalls[u] = 0

\* C1 as stated: a request whose X-API-Key is missing or not in the allow-list
\* is answered 401 and makes no downstream call.
C1_UnauthorizedIs401 ==
    \A r \in Reqs :
        (Finished(r) /\ ~Authenticated(r)) =>
            (response[r].status = HTTP_401_UNAUTHORIZED /\ NoDownstream(r))

\* Beside C1: whatever status the rejection carries, a request without an
\* accepted key never reaches the handler and makes no downstream call.
RejectedMakesNoDownstreamCall ==
    \A r \in Reqs :
        ~Authenticated(r) =>
            (pc[r] # "handler" /\ NoDownstream(r) /\ response[r].status \in {0, 401, 403})

\* C2 as stated: an authenticated request without session.name (also one
\* without a session object) makes exactly one create-session call, before
\* the answer-query call, which uses the returned name; one with session.name
\* makes none and the answer-query call uses the supplied name.
C2_OneCreateSessionWithoutName ==
    \A r \in Reqs :
        (Finished(r) /\ Authenticated(r)) =>
            IF NameSupplied(r)
            THEN /\ CallsOf(r, "create_session") = {}
                 /\ \A i \in CallsOf(r, "answer_query") :
                       calls[r][i].arg = body[r].session.name
            ELSE /\ CallsOf(r, "create_session") = {1}
                 /\ \A i \in CallsOf(r, "answer_query") :
                       i > 1 /\ calls[r][i].arg = upstream[r].session

C4_FailedCallEndsRequest ==
    \A r \in Reqs :
        \A i \in 1..Len(calls[r]) :
            ~calls[r][i].ok =>
                /\ i = Len(calls[r])
                /\ CallsOf(r, calls[r][i].op) = {i}
                /\ response[r].status = 500
                /\ response[r].content = EmptyDict
                /\ ~archive[r].launched
                /\ calls[r][i].op = "create_session" =>
                      (~upstream[r].built /\ CallsOf(r, "answer_query") = {})

\* A request has ended on a create-session call that failed.
C4_Witness ==
    \E r \in Reqs :
        /\ Finished(r)
        /\ response[r].status = 500
        /\ Len(calls[r]) = 1
        /\ calls[r][1].op = "create_session"
        /\ ~calls[r][1].ok

\* C6 as stated: whatever optional members the body leaves out, the upstream
\* request is built, with languageCode "es", includeCitations true,
\* maxReturnResults 10, maxRephraseSteps 5, disableQueryRephraser false and
\* the ignore flags false, and with the members that are present as given.
C6_DefaultsReachUpstream ==
    \A r \in Reqs :
        (Finished(r) /\ Authenticated(r) /\ NoFailedCall(r)) =>
            /\ upstream[r].built
            /\ upstream[r].query = body[r].query
            /\ upstream[r].answer_language_code =
                  (IF body[r].languageCode = Absent THEN "es" ELSE body[r].languageCode)
            /\ upstream[r].max_return_results =
                  (IF body[r].maxReturnResults = Absent THEN 10 ELSE 3)
            /\ upstream[r].include_citations
            /\ upstream[r].max_rephrase_steps = 5
            /\ ~upstream[r].disable
            /\ ~upstream[r].ignore_adversarial_query
            /\ ~upstream[r].ignore_non_answer_seeking_query
            /\ ~upstream[r].ignore_low_relevant_content

====
